---- MODULE Spec2Model ----
(***************************************************************************)
(* Model of govue's snapshot reconciliation engine (CalcChangeset and the  *)
(* functions it calls).  Two gradebook snapshots are held in gb; one call  *)
(* of CalcChangeset(a, b) runs over them, one loop iteration per step.     *)
(* Go's map iteration order and the order in which findCourse meets the    *)
(* entries of a map are unspecified: both are nondeterministic choices.    *)
(*                                                                         *)
(* Pointers: a *Course is <<g, i>> (course i of snapshot g), a *Assignment *)
(* is <<g, i, m, k>> (the assignment element k of mark m of that course    *)
(* points to), nil is <<>>.  An element of a snapshot's []*Assignment is a *)
(* cell: <<x>> when it points to the Assignment x, <<>> when it is nil.    *)
(* A nullable struct pointer that is never compared by identity is a       *)
(* sequence of length 0 or 1.  float64 values are kept in tenths, as       *)
(* integers (88.0 is 880), so subtraction and comparison are exact.        *)
(*                                                                         *)
(* The pure functions of the decoding layer (CurrentGradingPeriodIndex and *)
(* the attribute decoders of CourseID and Percentage) have specifications  *)
(* of their own: one call on an input drawn from a bounded set.  So have   *)
(* decodeStudentGrades (SpecDecodeGrades: one call on a decoded document)  *)
(* and respIsOk (SpecRespIsOk: its token loop over a response body, with   *)
(* weak fairness since the loop runs in one goroutine without blocking).  *)
(***************************************************************************)
EXTENDS Integers, Sequences, FiniteSets, TLC

VARIABLES
    gb,              \* the two snapshots: gb.A and gb.B (the heap of Gradebooks)
    arg,             \* the call's parameters: which snapshot a and b point to
    pc,              \* position of the call
    ret,             \* what CalcChangeset returned: <<>> until it returns
    cs,              \* the Changeset under construction
    normalizedBMap,  \* diffCourseSets' local map
    visited,         \* keys the running range loop has already produced
    prev,            \* outcome of an earlier call on the same pair, <<>> if none
    handed,          \* the pairs (a, b) diffAssignments was called with, and how often
    decoder          \* respIsOk's xml.Decoder d: its offset and what Token() last returned

vars == <<gb, arg, pc, ret, cs, normalizedBMap, visited, prev, handed, decoder>>

(***************************************************************************)
(* Bounds and input values                                                 *)
(***************************************************************************)
MaxCourses == 2        \* longest Courses sequence of a snapshot
MaxAssignments == 2    \* longest Assignments sequence of a mark
MaxGradingPeriods == 2 \* longest GradingPeriods sequence of a decoded Gradebook
MaxIndex == 3          \* largest Index attribute of a GradingPeriod
MaxPieces == 3         \* most pieces a course title is put together from
MaxChars == 3          \* longest percentage attribute
MaxMarks == 2          \* most marks a decoded course has
MaxTokens == 3         \* most tokens a response body has before its end

Periods == {1, 2}
CourseIDs == {"ENG101", "MATH201"}

Nil == <<>>

\* No xml.Decoder has been made.
NoDecoder == <<>>

SeqsUpTo(S, n) == UNION {[1..k -> S] : k \in 0..n}

Max(S) == CHOOSE x \in S : \A y \in S : y <= x

\* All the orders in which a range loop can produce the keys S.
Orders(S) == {o \in [1..Cardinality(S) -> S] : \A i, j \in DOMAIN o : o[i] = o[j] => i = j}

\* delete(m, k)
Delete(m, k) == [x \in DOMAIN m \ {k} |-> m[x]]

\* m[k] = v
Put(m, k, v) == [x \in DOMAIN m \cup {k} |-> IF x = k THEN v ELSE m[x]]

EmptyMap == [x \in {} |-> Nil]

(***************************************************************************)
(* The snapshot model (types of the gradebook file)                        *)
(***************************************************************************)
AssignmentScore(graded, score, possible) ==
    [Graded |-> graded, Score |-> score, PossibleScore |-> possible]

AssignmentPoints(points, possible) == [Points |-> points, PossiblePoints |-> possible]

\* An Assignment with the given ID, name, score and points; its other fields
\* have the values of an ordinary entry.
Assignment(gid, name, score, points) ==
    [GradebookID |-> gid, Name |-> name, Score |-> score, Points |-> points,
     Type |-> "Homework", ScoreType |-> "Raw Score", Date |-> "9/1", DueDate |-> "9/8",
     Notes |-> ""]

CourseMark(letter, raw, assignments) ==
    [Name |-> "Q1", LetterGrade |-> letter, RawGradeScore |-> raw,
     Assignments |-> assignments]

\* CurrentMark is the position in Marks of the mark it points to.
Course(period, id, marks, current) ==
    [Period |-> period, ID |-> [ID |-> id, Name |-> id], Marks |-> marks,
     CurrentMark |-> current]

Gradebook(label, courses) ==
    [CurrentGradingPeriod |-> [Name |-> label], Courses |-> courses]

CourseAt(ptr) == gb[ptr[1]].Courses[ptr[2]]

AssignmentAt(ptr) == gb[ptr[1]].Courses[ptr[2]].Marks[ptr[3]].Assignments[ptr[4]][1]

\* Faulty variant: the first mark of the course, current or not.
FirstMarkOf(cptr) == CourseAt(cptr).Marks[1]

\* c.CurrentMark
CurrentMarkOf(cptr) == CourseAt(cptr).Marks[CourseAt(cptr).CurrentMark]

\* The elements of c.CurrentMark.Assignments as pointer values, in order.
CurrentAssignments(cptr) ==
    LET c == CourseAt(cptr)
        cells == c.Marks[c.CurrentMark].Assignments
    IN  [k \in 1..Len(cells) |->
            IF cells[k] = <<>> THEN Nil ELSE <<cptr[1], cptr[2], c.CurrentMark, k>>]

(***************************************************************************)
(* Semester guard                                                          *)
(***************************************************************************)
\* A Go string is the sequence of its characters.
Q1 == <<"Q", "1">>
Q2 == <<"Q", "2">>
Q3 == <<"Q", "3">>
Q4 == <<"Q", "4">>

\* Faulty variant: the comparison folds letter case.
ContainsFoldingCase(s, substr) ==
    LET up(c) == IF c = "q" THEN "Q" ELSE c
        fold(t) == [i \in DOMAIN t |-> up(t[i])]
    IN  \E i \in 1..(Len(s) - Len(substr) + 1) :
           fold(SubSeq(s, i, i + Len(substr) - 1)) = fold(substr)

\* strings.Contains(s, substr)
Contains(s, substr) ==
    \E i \in 1..(Len(s) - Len(substr) + 1) : SubSeq(s, i, i + Len(substr) - 1) = substr

\* Faulty variant: only the order semester 1, semester 2 is refused.
gradebookSemestersMatchOneWay(a, b) ==
    LET aGradePeriod == a.CurrentGradingPeriod.Name
        bGradePeriod == b.CurrentGradingPeriod.Name
    IN  IF /\ Contains(aGradePeriod, Q1) \/ Contains(aGradePeriod, Q2)
           /\ Contains(bGradePeriod, Q3) \/ Contains(bGradePeriod, Q4)
        THEN [aSemester |-> 1, bSemester |-> 2, ok |-> FALSE]
        ELSE [aSemester |-> 0, bSemester |-> 0, ok |-> TRUE]

gradebookSemestersMatch(a, b) ==
    LET aGradePeriod == a.CurrentGradingPeriod.Name
        bGradePeriod == b.CurrentGradingPeriod.Name
    IN  IF Contains(aGradePeriod, Q1) \/ Contains(aGradePeriod, Q2)
        THEN IF Contains(bGradePeriod, Q3) \/ Contains(bGradePeriod, Q4)
             THEN [aSemester |-> 1, bSemester |-> 2, ok |-> FALSE]
             ELSE [aSemester |-> 0, bSemester |-> 0, ok |-> TRUE]
        ELSE IF Contains(aGradePeriod, Q3) \/ Contains(aGradePeriod, Q4)
             THEN IF Contains(bGradePeriod, Q1) \/ Contains(bGradePeriod, Q2)
                  THEN [aSemester |-> 2, bSemester |-> 1, ok |-> FALSE]
                  ELSE [aSemester |-> 0, bSemester |-> 0, ok |-> TRUE]
             ELSE [aSemester |-> 0, bSemester |-> 0, ok |-> TRUE]

\* Faulty variant: the first course of a period is kept, not the last.
periodMapKeepingFirst(g) ==
    LET courses == gb[g].Courses
    IN  [p \in {courses[i].Period : i \in DOMAIN courses} |->
            <<g, CHOOSE i \in DOMAIN courses :
                    /\ courses[i].Period = p
                    /\ \A j \in DOMAIN courses : courses[j].Period = p => i <= j>>]

(***************************************************************************)
(* Course-set diff                                                         *)
(***************************************************************************)
\* One period map of coursesAsMap: period -> *Course; a later course of the
\* sequence overwrites an earlier one of the same period.
periodMap(g) ==
    LET courses == gb[g].Courses
    IN  [p \in {courses[i].Period : i \in DOMAIN courses} |->
            <<g, Max({i \in DOMAIN courses : courses[i].Period = p})>>]

coursesAsMap(acs, bcs) == [acsMap |-> periodMap(acs), bcsMap |-> periodMap(bcs)]

\* Faulty variant: the first entry met is returned, whatever its ID.
findCourseIgnoringID(courses, id) ==
    IF DOMAIN courses = {}
    THEN {[c |-> Nil, k |-> 0, found |-> FALSE]}
    ELSE {[c |-> courses[k], k |-> k, found |-> TRUE] : k \in DOMAIN courses}

\* The results findCourse can return: the range loop meets the entries in
\* any order, so any entry with the ID may be the first one met.
findCourse(courses, id) ==
    LET hits == {k \in DOMAIN courses : CourseAt(courses[k]).ID.ID = id}
    IN  IF hits = {}
        THEN {[c |-> Nil, k |-> 0, found |-> FALSE]}
        ELSE {[c |-> courses[k], k |-> k, found |-> TRUE] : k \in hits}

CourseSwitch(ac, c) ==
    [Before |-> ac, After |-> c,
     BeforePeriod |-> CourseAt(ac).Period, AfterPeriod |-> CourseAt(c).Period]

\* Faulty variant: the course found stays in the pool cs.bMap.
findCourseSwitchKeepingPool(p, ac, f) ==
    IF f.found
    THEN [cs |-> [cs EXCEPT !.CourseSwitches = Append(@, CourseSwitch(ac, f.c))],
          normalizedBMap |-> Put(normalizedBMap, p, f.c),
          found |-> TRUE]
    ELSE [cs |-> cs, normalizedBMap |-> normalizedBMap, found |-> FALSE]

\* The closure findCourseSwitch, given the result f of its findCourse call:
\* the Changeset, the local map and the closure's return value afterwards.
findCourseSwitch(p, ac, f) ==
    IF f.found
    THEN [cs |-> [cs EXCEPT !.CourseSwitches = Append(@, CourseSwitch(ac, f.c)),
                            !.bMap = Delete(@, f.k)],
          normalizedBMap |-> Put(normalizedBMap, p, f.c),
          found |-> TRUE]
    ELSE [cs |-> cs, normalizedBMap |-> normalizedBMap, found |-> FALSE]

EmptyChangeset ==
    [aMap |-> EmptyMap, bMap |-> EmptyMap, CourseSwitches |-> <<>>,
     CourseAdditions |-> <<>>, CourseDrops |-> <<>>, CourseChanges |-> <<>>]

SemesterMismatchError(as, bs) ==
    [type |-> "SemesterMismatchError", aSemester |-> as, bSemester |-> bs]

\* CalcChangeset, the guard failing: return nil and the error.
ReturnSemesterMismatch ==
    /\ pc = "CalcChangeset"
    /\ LET m == gradebookSemestersMatch(gb[arg.a], gb[arg.b])
       IN  /\ ~m.ok
           /\ ret' = <<SemesterMismatchError(m.aSemester, m.bSemester)>>
    /\ pc' = "returned"
    /\ UNCHANGED <<gb, arg, cs, normalizedBMap, visited, prev, handed, decoder>>

\* CalcChangeset, the guard passing: build the period maps and the Changeset.
BuildChangeset ==
    /\ pc = "CalcChangeset"
    /\ gradebookSemestersMatch(gb[arg.a], gb[arg.b]).ok
    /\ LET m == coursesAsMap(arg.a, arg.b)
       IN  cs' = [EmptyChangeset EXCEPT !.aMap = m.acsMap, !.bMap = m.bcsMap]
    /\ normalizedBMap' = EmptyMap
    /\ visited' = {}
    /\ pc' = "diffCourseSets"
    /\ UNCHANGED <<gb, arg, ret, prev, handed, decoder>>

\* One iteration of diffCourseSets' loop over aMap.
MatchCourse ==
    /\ pc = "diffCourseSets"
    /\ \E p \in DOMAIN cs.aMap \ visited :
          LET ac == cs.aMap[p]
              id == CourseAt(ac).ID.ID
          IN  /\ visited' = visited \cup {p}
              /\ IF p \in DOMAIN cs.bMap
                 THEN IF id = CourseAt(cs.bMap[p]).ID.ID
                      THEN /\ normalizedBMap' = Put(normalizedBMap, p, cs.bMap[p])
                           /\ cs' = [cs EXCEPT !.bMap = Delete(@, p)]
                      ELSE \E f \in findCourse(cs.bMap, id) :
                              LET r == findCourseSwitch(p, ac, f)
                              IN  /\ normalizedBMap' = r.normalizedBMap
                                  /\ cs' = r.cs
                 ELSE \E f \in findCourse(cs.bMap, id) :
                         LET r == findCourseSwitch(p, ac, f)
                         IN  /\ normalizedBMap' = r.normalizedBMap
                             /\ cs' = IF r.found
                                      THEN r.cs
                                      ELSE [r.cs EXCEPT
                                              !.CourseDrops = Append(@, ac),
                                              !.aMap = Delete(@, p)]
    /\ UNCHANGED <<gb, arg, pc, ret, prev, handed, decoder>>

\* The loop over aMap is exhausted: go on to the loop over what is left of bMap.
MatchCoursesDone ==
    /\ pc = "diffCourseSets"
    /\ DOMAIN cs.aMap \ visited = {}
    /\ pc' = "leftovers"
    /\ visited' = {}
    /\ UNCHANGED <<gb, arg, ret, cs, normalizedBMap, prev, handed, decoder>>

\* Faulty variant: every course left in bMap is reported as an addition.
LeftoverCourseAlwaysAdded ==
    /\ pc = "leftovers"
    /\ \E p \in DOMAIN cs.bMap \ visited :
          /\ visited' = visited \cup {p}
          /\ cs' = [cs EXCEPT !.CourseAdditions = Append(@, cs.bMap[p]),
                              !.bMap = Delete(@, p)]
    /\ UNCHANGED <<gb, arg, pc, ret, normalizedBMap, prev, handed, decoder>>

\* One iteration of diffCourseSets' loop over the rest of bMap.
LeftoverCourse ==
    /\ pc = "leftovers"
    /\ \E p \in DOMAIN cs.bMap \ visited :
          LET bc == cs.bMap[p]
          IN  /\ visited' = visited \cup {p}
              /\ \E f \in findCourse(cs.aMap, CourseAt(bc).ID.ID) :
                    IF f.found
                    THEN /\ normalizedBMap' = Put(normalizedBMap, f.k, f.c)
                         /\ cs' = [cs EXCEPT !.bMap = Delete(@, p)]
                    ELSE /\ normalizedBMap' = normalizedBMap
                         /\ cs' = [cs EXCEPT !.CourseAdditions = Append(@, bc),
                                             !.bMap = Delete(@, p)]
    /\ UNCHANGED <<gb, arg, pc, ret, prev, handed, decoder>>

\* The loop is exhausted: cs.bMap = normalizedBMap, and diffCourseSets returns.
LeftoversDone ==
    /\ pc = "leftovers"
    /\ DOMAIN cs.bMap \ visited = {}
    /\ cs' = [cs EXCEPT !.bMap = normalizedBMap]
    /\ pc' = "diffCourseAssignments"
    /\ visited' = {}
    /\ UNCHANGED <<gb, arg, ret, normalizedBMap, prev, handed, decoder>>

(***************************************************************************)
(* Assignment diff                                                         *)
(***************************************************************************)
\* Faulty variant: the increase flags take the sign of a - b.
diffAssignmentsReversedSign(a, b) ==
    LET x == AssignmentAt(a)
        y == AssignmentAt(b)
    IN  IF x.Name = y.Name /\ x.Score = y.Score /\ x.Points = y.Points
        THEN <<>>
        ELSE <<[Before |-> a, After |-> b,
                NameChange |-> x.Name # y.Name,
                ScoreChange |-> x.Score.Score # y.Score.Score,
                PointsChange |-> x.Points.Points # y.Points.Points,
                ScoreIncrease |-> (x.Score.Score - y.Score.Score) > 0,
                PossibleScoreChange |-> x.Score.PossibleScore # y.Score.PossibleScore,
                PointsIncrease |-> (x.Points.Points - y.Points.Points) > 0,
                PossiblePointsIncrease |-> x.Points.PossiblePoints # y.Points.PossiblePoints,
                PreviousScore |-> x.Score, NewScore |-> y.Score,
                PreviousPoints |-> x.Points, NewPoints |-> y.Points]>>

\* Faulty variant: the Score and Points structs are compared as wholes.
diffAssignmentsByStruct(a, b) ==
    LET x == AssignmentAt(a)
        y == AssignmentAt(b)
    IN  IF x.Name = y.Name /\ x.Score = y.Score /\ x.Points = y.Points
        THEN <<>>
        ELSE <<[Before |-> a, After |-> b,
                NameChange |-> x.Name # y.Name,
                ScoreChange |-> x.Score # y.Score,
                PointsChange |-> x.Points # y.Points,
                ScoreIncrease |-> (y.Score.Score - x.Score.Score) > 0,
                PossibleScoreChange |-> x.Score.PossibleScore # y.Score.PossibleScore,
                PointsIncrease |-> (y.Points.Points - x.Points.Points) > 0,
                PossiblePointsIncrease |-> x.Points.PossiblePoints # y.Points.PossiblePoints,
                PreviousScore |-> x.Score, NewScore |-> y.Score,
                PreviousPoints |-> x.Points, NewPoints |-> y.Points]>>

\* CourseChange.diffAssignments(a, b): the records it appends to
\* cc.AssignmentChanges (none or one).
diffAssignments(a, b) ==
    LET x == AssignmentAt(a)
        y == AssignmentAt(b)
        nameChange == x.Name # y.Name
        scoreChange == (y.Score.Score - x.Score.Score) # 0
        possibleScoreChange == (y.Score.PossibleScore - x.Score.PossibleScore) # 0
        pointsChange == (y.Points.Points - x.Points.Points) # 0
        possiblePointsChange == (y.Points.PossiblePoints - x.Points.PossiblePoints) # 0
    IN  IF ~nameChange /\ ~scoreChange /\ ~possibleScoreChange /\ ~pointsChange
           /\ ~possiblePointsChange
        THEN <<>>
        ELSE <<[Before |-> a, After |-> b,
                NameChange |-> nameChange,
                ScoreChange |-> scoreChange,
                PointsChange |-> pointsChange,
                ScoreIncrease |-> (y.Score.Score - x.Score.Score) > 0,
                PossibleScoreChange |-> possibleScoreChange,
                PointsIncrease |-> (y.Points.Points - x.Points.Points) > 0,
                PossiblePointsIncrease |-> possiblePointsChange,
                PreviousScore |-> x.Score, NewScore |-> y.Score,
                PreviousPoints |-> x.Points, NewPoints |-> y.Points]>>

\* Faulty variant: bAssignments := bm.Assignments, the slice shares bm's backing array.
aliasAssignments(src) == [elems |-> src, aliasesSource |-> TRUE]

\* bAssignments := make(...); copy(bAssignments, bm.Assignments): a slice with
\* a backing array of its own, so a store to it does not reach bm.Assignments.
copyAssignments(src) == [elems |-> src, aliasesSource |-> FALSE]

\* The working state of one course's assignment reconciliation; diffed lists
\* the calls of diffAssignments made so far.
startDiff(am, bm) ==
    [a |-> am, b |-> copyAssignments(bm),
     notFoundA |-> EmptyMap, notFoundB |-> EmptyMap, changes |-> <<>>,
     removals |-> <<>>, additions |-> <<>>, diffed |-> <<>>]

\* Faulty variant: an element of A past the end of B is not staged.
positionalStepSkippingTail(st, k) ==
    LET a == st.a[k]
    IN  IF k > Len(st.b.elems)
        THEN st
        ELSE LET b == st.b.elems[k]
                 st1 == [st EXCEPT !.b.elems[k] = Nil]
             IN  IF AssignmentAt(a).GradebookID = AssignmentAt(b).GradebookID
                 THEN [st1 EXCEPT !.changes = @ \o diffAssignments(a, b),
                                  !.diffed = Append(@, <<a, b>>)]
                 ELSE [st1 EXCEPT
                         !.notFoundA = Put(@, AssignmentAt(a).GradebookID, a),
                         !.notFoundB = Put(@, AssignmentAt(b).GradebookID, b)]

\* Body of the loop over am.Assignments, at index k (counted from 1).
positionalStep(st, k) ==
    LET a == st.a[k]
        aCount == Len(st.a)
        bCount == Len(st.b.elems)
    IN  IF bCount < aCount /\ k > bCount
        THEN [st EXCEPT !.notFoundA = Put(@, AssignmentAt(a).GradebookID, a)]
        ELSE LET b == st.b.elems[k]
                 st1 == [st EXCEPT !.b.elems[k] = Nil]
             IN  IF AssignmentAt(a).GradebookID = AssignmentAt(b).GradebookID
                 THEN [st1 EXCEPT !.changes = @ \o diffAssignments(a, b),
                                  !.diffed = Append(@, <<a, b>>)]
                 ELSE [st1 EXCEPT
                         !.notFoundA = Put(@, AssignmentAt(a).GradebookID, a),
                         !.notFoundB = Put(@, AssignmentAt(b).GradebookID, b)]

RECURSIVE positionalPass(_, _)
positionalPass(st, k) ==
    IF k > Len(st.a) THEN st ELSE positionalPass(positionalStep(st, k), k + 1)

\* Body of the loop over bAssignments, at index k (counted from 1).
lookupStep(st, k) ==
    LET b == st.b.elems[k]
    IN  IF b = Nil
        THEN st
        ELSE LET gid == AssignmentAt(b).GradebookID
             IN  IF gid \in DOMAIN st.notFoundA
                 THEN [st EXCEPT
                         !.changes = @ \o diffAssignments(st.notFoundA[gid], b),
                         !.diffed = Append(@, <<st.notFoundA[gid], b>>),
                         !.notFoundA = Delete(@, gid),
                         !.b.elems[k] = Nil]
                 ELSE [st EXCEPT !.notFoundB = Put(@, gid, b)]

RECURSIVE lookupPass(_, _)
lookupPass(st, k) ==
    IF k > Len(st.b.elems) THEN st ELSE lookupPass(lookupStep(st, k), k + 1)

\* Faulty variant: every assignment left in notFoundAAssignments is taken as removed.
leftoverPassWithoutLookup(st, o, n) ==
    [st EXCEPT !.removals = [i \in 1..Len(o) |-> st.notFoundA[o[i]]]]

\* The loop over notFoundAAssignments, producing its keys in the order o.
RECURSIVE leftoverPass(_, _, _)
leftoverPass(st, o, n) ==
    IF n > Len(o)
    THEN st
    ELSE LET gid == o[n]
             a == st.notFoundA[gid]
         IN  IF gid \in DOMAIN st.notFoundB
             THEN leftoverPass(
                     [st EXCEPT
                        !.changes = @ \o diffAssignments(a, st.notFoundB[gid]),
                        !.diffed = Append(@, <<a, st.notFoundB[gid]>>),
                        !.notFoundA = Delete(@, gid),
                        !.notFoundB = Delete(@, gid)],
                     o, n + 1)
             ELSE leftoverPass([st EXCEPT !.removals = Append(@, a)], o, n + 1)

\* The loop over notFoundBAssignments, producing its keys in the order o.
additionPass(st, o) ==
    [st EXCEPT !.additions = [n \in 1..Len(o) |-> st.notFoundB[o[n]]]]

\* Faulty variant: the grade change is detected by the letter grade.
gradeChangeByLetter(am, bm) ==
    IF am.LetterGrade # bm.LetterGrade
    THEN <<[DeltaPct |-> bm.RawGradeScore - am.RawGradeScore,
            GradeIncrease |-> bm.RawGradeScore - am.RawGradeScore > 0,
            NewGradePct |-> bm.RawGradeScore,
            NewLetterGrade |-> bm.LetterGrade,
            PreviousGradePct |-> am.RawGradeScore,
            PreviousLetterGrade |-> am.LetterGrade]>>
    ELSE <<>>

\* cc.GradeChange: nil, or the CourseGradeChange of the two current marks.
gradeChange(am, bm) ==
    LET ps == am.RawGradeScore
        ns == bm.RawGradeScore
        change == ns - ps
    IN  IF (ns - ps) # 0
        THEN <<[DeltaPct |-> change,
                GradeIncrease |-> change > 0,
                NewGradePct |-> ns,
                NewLetterGrade |-> bm.LetterGrade,
                PreviousGradePct |-> ps,
                PreviousLetterGrade |-> am.LetterGrade]>>
        ELSE <<>>

\* Faulty variant: x & y in place of x | y.
RECURSIVE BitAnd(_, _)
BitAnd(x, y) ==
    IF x = 0 \/ y = 0 THEN 0
    ELSE (IF x % 2 = 1 /\ y % 2 = 1 THEN 1 ELSE 0) + 2 * BitAnd(x \div 2, y \div 2)

\* x | y on non-negative ints.
RECURSIVE BitOr(_, _)
BitOr(x, y) ==
    IF x = 0 THEN y
    ELSE IF y = 0 THEN x
    ELSE (IF x % 2 = 1 \/ y % 2 = 1 THEN 1 ELSE 0) + 2 * BitOr(x \div 2, y \div 2)

\* Faulty variant: the CourseChange is appended whether or not anything changed.
courseChangeAlways(ac, bc, st) ==
    <<[Course |-> ac,
       GradeChange |-> gradeChange(CurrentMarkOf(ac), CurrentMarkOf(bc)),
       AssignmentChanges |-> st.changes,
       AssignmentAdditions |-> st.additions,
       AssignmentRemovals |-> st.removals]>>

\* The CourseChange of one pair once every loop has run, and whether it is
\* appended to cs.CourseChanges.
courseChange(ac, bc, st) ==
    LET cc == [Course |-> ac,
               GradeChange |-> gradeChange(CurrentMarkOf(ac), CurrentMarkOf(bc)),
               AssignmentChanges |-> st.changes,
               AssignmentAdditions |-> st.additions,
               AssignmentRemovals |-> st.removals]
        changed == BitOr(BitOr(Len(cc.AssignmentAdditions), Len(cc.AssignmentChanges)),
                         Len(cc.AssignmentRemovals))
    IN  IF cc.GradeChange # <<>> \/ changed > 0 THEN <<cc>> ELSE <<>>

\* The snapshots after the stores bAssignments[k] = nil of one course's diff:
\* they reach bm.Assignments only if the slice shares its backing array.
afterStores(bc, b) ==
    IF b.aliasesSource
    THEN [gb EXCEPT ![bc[1]].Courses[bc[2]].Marks[CourseAt(bc).CurrentMark].Assignments =
              [k \in DOMAIN @ |-> IF b.elems[k] = Nil THEN <<>> ELSE @[k]]]
    ELSE gb

\* How often each element occurs in a list.
Tally(seq) ==
    [x \in {seq[n] : n \in DOMAIN seq} |-> Cardinality({n \in DOMAIN seq : seq[n] = x})]

\* One iteration of diffCourseAssignments' loop over aMap, the period having
\* a partner in bMap.
DiffCourse ==
    /\ pc = "diffCourseAssignments"
    /\ \E p \in (DOMAIN cs.aMap \ visited) \cap DOMAIN cs.bMap :
          LET ac == cs.aMap[p]
              bc == cs.bMap[p]
              st2 == lookupPass(
                        positionalPass(
                           startDiff(CurrentAssignments(ac), CurrentAssignments(bc)), 1),
                        1)
          IN  \E oa \in Orders(DOMAIN st2.notFoundA) :
                 LET st3 == leftoverPass(st2, oa, 1)
                 IN  \E ob \in Orders(DOMAIN st3.notFoundB) :
                        LET st4 == additionPass(st3, ob)
                        IN  /\ cs' = [cs EXCEPT
                                        !.CourseChanges = @ \o courseChange(ac, bc, st4)]
                            /\ gb' = afterStores(bc, st4.b)
                            /\ visited' = visited \cup {p}
                            /\ handed' = handed @@ Tally(st4.diffed)
    /\ UNCHANGED <<arg, pc, ret, normalizedBMap, prev, decoder>>

\* The same iteration when bMap has no entry for the period: bc is nil and
\* bc.CurrentMark is a nil pointer dereference, which aborts the program.
DereferenceMissingPartner ==
    /\ pc = "diffCourseAssignments"
    /\ \E p \in DOMAIN cs.aMap \ visited : p \notin DOMAIN cs.bMap
    /\ pc' = "panic"
    /\ UNCHANGED <<gb, arg, ret, cs, normalizedBMap, visited, prev, handed, decoder>>

\* The loop is exhausted: diffCourseAssignments returns, and CalcChangeset
\* returns the Changeset.
ReturnChangeset ==
    /\ pc = "diffCourseAssignments"
    /\ DOMAIN cs.aMap \ visited = {}
    /\ ret' = <<[type |-> "Changeset"]>>
    /\ pc' = "returned"
    /\ UNCHANGED <<gb, arg, cs, normalizedBMap, visited, prev, handed, decoder>>

(***************************************************************************)
(* Calls and inputs                                                        *)
(***************************************************************************)
Range(f) == {f[x] : x \in DOMAIN f}

\* What a call that has ended produced, its lists taken as sets.
Outcome ==
    [completed |-> pc = "returned",
     ret |-> ret,
     CourseSwitches |-> IF pc = "returned" THEN Range(cs.CourseSwitches) ELSE {},
     CourseDrops |-> IF pc = "returned" THEN Range(cs.CourseDrops) ELSE {},
     CourseAdditions |-> IF pc = "returned" THEN Range(cs.CourseAdditions) ELSE {},
     CourseChanges |->
        IF pc = "returned"
        THEN {[Course |-> cc.Course, GradeChange |-> cc.GradeChange,
               AssignmentChanges |-> Range(cc.AssignmentChanges),
               AssignmentAdditions |-> Range(cc.AssignmentAdditions),
               AssignmentRemovals |-> Range(cc.AssignmentRemovals)] :
                 cc \in Range(cs.CourseChanges)}
        ELSE {}]

\* The caller evaluates CalcChangeset(a, b) once more on the same snapshots.
CallAgain ==
    /\ pc \in {"returned", "panic"}
    /\ prev = <<>>
    /\ prev' = <<Outcome>>
    /\ pc' = "CalcChangeset"
    /\ ret' = <<>>
    /\ cs' = EmptyChangeset
    /\ normalizedBMap' = EmptyMap
    /\ visited' = {}
    /\ handed' = EmptyMap
    /\ UNCHANGED <<gb, arg, decoder>>

\* Assignments the snapshots are built from (scores and points in tenths).
Quiz == Assignment("g1", "Quiz", AssignmentScore(TRUE, 80, 100), AssignmentPoints(80, 100))
QuizRenamed ==
    Assignment("g1", "Quiz 1", AssignmentScore(TRUE, 80, 100), AssignmentPoints(80, 100))
QuizRegraded ==
    Assignment("g1", "Quiz", AssignmentScore(TRUE, 90, 100), AssignmentPoints(90, 100))
Essay == Assignment("g2", "Essay", AssignmentScore(TRUE, 80, 100), AssignmentPoints(160, 200))
Lab == Assignment("g3", "Lab", AssignmentScore(FALSE, 0, 0), AssignmentPoints(0, 50))

Assignments == {Quiz, QuizRenamed, QuizRegraded, Essay, Lab}

\* Further states of the assignment g1, each differing from Quiz in one number.
QuizRescaled ==
    Assignment("g1", "Quiz", AssignmentScore(TRUE, 80, 200), AssignmentPoints(80, 100))
QuizReweighted ==
    Assignment("g1", "Quiz", AssignmentScore(TRUE, 80, 100), AssignmentPoints(80, 150))
QuizRepointed ==
    Assignment("g1", "Quiz", AssignmentScore(TRUE, 80, 100), AssignmentPoints(85, 100))
QuizUngraded ==
    Assignment("g1", "Quiz", AssignmentScore(FALSE, 80, 100), AssignmentPoints(80, 100))

\* States of g1 that differ from Quiz in a field diffAssignments does not read.
QuizRetyped == [Quiz EXCEPT !.Type = "Test"]
QuizAsPercentage == [Quiz EXCEPT !.ScoreType = "Percentage"]
QuizRedated == [Quiz EXCEPT !.Date = "9/2"]
QuizPostponed == [Quiz EXCEPT !.DueDate = "9/9"]
QuizAnnotated == [Quiz EXCEPT !.Notes = "late"]

QuizStates ==
    {Quiz, QuizRenamed, QuizRegraded, QuizRescaled, QuizReweighted, QuizRepointed,
     QuizUngraded, QuizRetyped, QuizAsPercentage, QuizRedated, QuizPostponed,
     QuizAnnotated}

\* Grading-period labels: the four markers, a lower-case marker, a marker
\* inside a longer label, a label with markers of both semesters, and a
\* label with no marker.
Labels ==
    {Q1, Q2, Q3, Q4, <<"q", "2">>, <<"T", "2", " ", "Q", "3">>,
     <<"Q", "1", "-", "Q", "3">>, <<"S", "1">>}

PlainMark == CourseMark("B", 880, << <<Quiz>> >>)

PlainCourses == {Course(p, id, <<PlainMark>>, 1) : p \in Periods, id \in CourseIDs}

\* Snapshots that differ in their course sets.
CourseSetInputs ==
    {[A |-> Gradebook(Q1, ca), B |-> Gradebook(Q1, cb)] :
        ca \in SeqsUpTo(PlainCourses, MaxCourses),
        cb \in SeqsUpTo(PlainCourses, MaxCourses)}

\* Snapshots of one course that differ in the current mark's assignments.
AssignmentInputs ==
    {[A |-> Gradebook(Q1, <<Course(1, "ENG101", <<CourseMark("B", 880, la)>>, 1)>>),
      B |-> Gradebook(Q1, <<Course(1, "ENG101", <<CourseMark("B", 880, lb)>>, 1)>>)] :
        la \in SeqsUpTo({<<x>> : x \in Assignments}, MaxAssignments),
        lb \in SeqsUpTo({<<x>> : x \in Assignments}, MaxAssignments)}

\* Snapshots of one course that differ in the current mark's grade.
GradeInputs ==
    {[A |-> Gradebook(Q1, <<Course(1, "ENG101", <<CourseMark(ma[1], ma[2], la)>>, 1)>>),
      B |-> Gradebook(Q1, <<Course(1, "ENG101", <<CourseMark(mb[1], mb[2], lb)>>, 1)>>)] :
        la \in {<<>>, << <<Quiz>> >>},
        lb \in {<<>>, << <<Quiz>> >>, << <<QuizRegraded>> >>},
        ma \in {<<"B", 880>>, <<"B", 855>>},
        mb \in {<<"B", 880>>, <<"B", 855>>, <<"A", 880>>}}

\* Snapshots of one course with one assignment, in two of its states.
PairInputs ==
    {[A |-> Gradebook(Q1, <<Course(1, "ENG101", <<CourseMark("B", 880, << <<x>> >>)>>, 1)>>),
      B |-> Gradebook(Q1, <<Course(1, "ENG101", <<CourseMark("B", 880, << <<y>> >>)>>, 1)>>)] :
        x \in QuizStates, y \in QuizStates}

\* Marks of one course: they differ in the raw grade or in the assignments.
Marks ==
    {PlainMark, CourseMark("B", 855, << <<Quiz>> >>),
     CourseMark("B", 880, << <<Quiz>>, <<Essay>> >>)}

\* Snapshots of one course with the marks of two grading periods, either of
\* which is the current one.
MarkInputs ==
    {[A |-> Gradebook(Q1, <<Course(1, "ENG101", ma, ca)>>),
      B |-> Gradebook(Q1, <<Course(1, "ENG101", mb, cb)>>)] :
        ma \in [{1, 2} -> Marks], mb \in [{1, 2} -> Marks], ca \in {1, 2}, cb \in {1, 2}}

\* Snapshots that differ in the label of the current grading period.
LabelInputs ==
    {[A |-> Gradebook(la, <<Course(1, "ENG101", <<PlainMark>>, 1)>>),
      B |-> Gradebook(lb, <<Course(2, "ENG101", <<PlainMark>>, 1)>>)] :
        la \in Labels, lb \in Labels}

Inputs ==
    CourseSetInputs \cup AssignmentInputs \cup GradeInputs \cup PairInputs \cup MarkInputs
        \cup LabelInputs

\* CalcChangeset(a, b) is called with two snapshots, or with one snapshot
\* given twice.
Init ==
    /\ \E in \in Inputs :
          \/ gb = in /\ arg = [a |-> "A", b |-> "B"]
          \/ gb = [A |-> in.A, B |-> in.A] /\ arg = [a |-> "A", b |-> "A"]
    /\ pc = "CalcChangeset"
    /\ ret = <<>>
    /\ cs = EmptyChangeset
    /\ normalizedBMap = EmptyMap
    /\ visited = {}
    /\ prev = <<>>
    /\ handed = EmptyMap
    /\ decoder = NoDecoder

Next ==
    \/ ReturnSemesterMismatch
    \/ BuildChangeset
    \/ MatchCourse
    \/ MatchCoursesDone
    \/ LeftoverCourse
    \/ LeftoversDone
    \/ DiffCourse
    \/ DereferenceMissingPartner
    \/ ReturnChangeset

Spec == Init /\ [][Next]_vars

\* The same call evaluated twice in a row, on snapshots that differ in their
\* course sets or in their labels.
InitTwice ==
    /\ \E in \in CourseSetInputs \cup LabelInputs : gb = in
    /\ arg = [a |-> "A", b |-> "B"]
    /\ pc = "CalcChangeset"
    /\ ret = <<>>
    /\ cs = EmptyChangeset
    /\ normalizedBMap = EmptyMap
    /\ visited = {}
    /\ prev = <<>>
    /\ handed = EmptyMap
    /\ decoder = NoDecoder

NextTwice == Next \/ CallAgain

SpecTwice == InitTwice /\ [][NextTwice]_vars

(***************************************************************************)
(* Properties                                                              *)
(***************************************************************************)
Ended == pc \in {"returned", "panic"}

ReturnedChangeset == pc = "returned" /\ ret[1].type = "Changeset"

ReturnedMismatch == pc = "returned" /\ ret[1].type = "SemesterMismatchError"

\* diffCourseSets has run to its end.
CourseSetsDiffed == pc \in {"diffCourseAssignments", "panic"} \/ ReturnedChangeset

GuardPasses == gradebookSemestersMatch(gb[arg.a], gb[arg.b]).ok

Occurrences(seq, x) == Cardinality({n \in DOMAIN seq : seq[n] = x})

IDOf(cptr) == CourseAt(cptr).ID.ID

IDsOf(g) == {gb[g].Courses[i].ID.ID : i \in DOMAIN gb[g].Courses}

\* The courses of a snapshot that its period map holds.
MapCourses(g) == Range(periodMap(g))

LabelOf(g) == gb[g].CurrentGradingPeriod.Name

\* The label has the upper-case marker Q<d> at some position.
HasMarker(label, d) ==
    \E i \in 1..(Len(label) - 1) : label[i] = "Q" /\ label[i + 1] = d

InSemester1(label) == HasMarker(label, "1") \/ HasMarker(label, "2")

InSemester2(label) == HasMarker(label, "3") \/ HasMarker(label, "4")

\* C1: CalcChangeset never aborts: once diffCourseSets is done, every period
\* of the A period map has a partner in the normalized B map, so
\* diffCourseAssignments never dereferences a missing partner.
C1_NeverAborts ==
    /\ pc # "panic"
    /\ pc = "diffCourseAssignments" => DOMAIN cs.aMap \subseteq DOMAIN cs.bMap

\* C2: a course whose stable ID occurs only in A is reported as exactly one
\* CourseDrop, and a course whose stable ID occurs only in B as exactly one
\* CourseAddition (stated for the courses the period maps hold).
C2_PureAdditionDrop ==
    CourseSetsDiffed =>
        /\ \A ac \in MapCourses(arg.a) :
              IDOf(ac) \notin IDsOf(arg.b) => Occurrences(cs.CourseDrops, ac) = 1
        /\ \A bc \in MapCourses(arg.b) :
              IDOf(bc) \notin IDsOf(arg.a) => Occurrences(cs.CourseAdditions, bc) = 1

\* C3: for a fixed pair of snapshots, whether the call completes and the
\* CourseSwitches, CourseDrops, CourseAdditions and CourseChanges it yields
\* (as sets) are the same whatever the iteration order: a second evaluation
\* ends as the first one did.
C3_Deterministic == (Ended /\ prev # <<>>) => Outcome = prev[1]

\* C4: if the courses at period p of A and of B have the same stable ID, then
\* neither of them ever appears in CourseSwitches, CourseAdditions or
\* CourseDrops.
C4_PeriodAndIDMatchSuppresses ==
    \A p \in DOMAIN periodMap(arg.a) \cap DOMAIN periodMap(arg.b) :
        LET ac == periodMap(arg.a)[p]
            bc == periodMap(arg.b)[p]
        IN  IDOf(ac) = IDOf(bc) =>
                /\ \A n \in DOMAIN cs.CourseSwitches :
                      /\ cs.CourseSwitches[n].Before \notin {ac, bc}
                      /\ cs.CourseSwitches[n].After \notin {ac, bc}
                /\ ac \notin Range(cs.CourseAdditions) \cup Range(cs.CourseDrops)
                /\ bc \notin Range(cs.CourseAdditions) \cup Range(cs.CourseDrops)

\* C5: CalcChangeset(S, S), S passing the semester guard against itself,
\* does not abort and returns a Changeset whose CourseSwitches,
\* CourseAdditions, CourseDrops and CourseChanges are all empty.
C5_NoOpDiffIsEmpty ==
    (arg.a = arg.b /\ GuardPasses) =>
        /\ pc # "panic"
        /\ pc = "returned" => ReturnedChangeset
        /\ cs.CourseSwitches = <<>>
        /\ cs.CourseAdditions = <<>>
        /\ cs.CourseDrops = <<>>
        /\ cs.CourseChanges = <<>>

C5_Witness ==
    /\ arg.a = arg.b
    /\ ReturnedChangeset
    /\ Len(gb.A.Courses) = 2
    /\ gb.A.Courses[1].ID.ID = gb.A.Courses[2].ID.ID
    /\ gb.A.Courses[1].Period # gb.A.Courses[2].Period
    /\ visited = {1, 2}

\* C6: when a stable ID occurs once in A, at period p, and once in B, at
\* period q # p, CalcChangeset emits exactly one CourseSwitch for it, with
\* BeforePeriod = p and AfterPeriod = q, and no CourseAddition and no
\* CourseDrop for it (stated for the courses the period maps hold, and for
\* snapshots that pass the semester guard).
C6_SwitchDetection ==
    (Ended /\ GuardPasses) =>
        \A ac \in MapCourses(arg.a), bc \in MapCourses(arg.b) :
            ( /\ IDOf(ac) = IDOf(bc)
              /\ CourseAt(ac).Period # CourseAt(bc).Period
              /\ Cardinality({i \in DOMAIN gb[arg.a].Courses :
                                 gb[arg.a].Courses[i].ID.ID = IDOf(ac)}) = 1
              /\ Cardinality({j \in DOMAIN gb[arg.b].Courses :
                                 gb[arg.b].Courses[j].ID.ID = IDOf(ac)}) = 1 )
            => /\ ReturnedChangeset
               /\ Occurrences(cs.CourseSwitches,
                              [Before |-> ac, After |-> bc,
                               BeforePeriod |-> CourseAt(ac).Period,
                               AfterPeriod |-> CourseAt(bc).Period]) = 1
               /\ \A n \in DOMAIN cs.CourseSwitches :
                     IDOf(cs.CourseSwitches[n].Before) = IDOf(ac)
                        => cs.CourseSwitches[n].Before = ac
               /\ {ac, bc} \cap (Range(cs.CourseAdditions) \cup Range(cs.CourseDrops)) = {}

\* The Assignments c.CurrentMark.Assignments points to, as values.
AssignmentValues(cptr) ==
    LET cells == CurrentMarkOf(cptr).Assignments
    IN  [k \in DOMAIN cells |-> cells[k][1]]

IsPermutation(s, t) ==
    /\ Len(s) = Len(t)
    /\ \E f \in Permutations(DOMAIN s) : \A k \in DOMAIN s : t[k] = s[f[k]]

\* The course a CourseChange's course was diffed against.
PartnerOf(ac) == cs.bMap[CourseAt(ac).Period]

\* Entries of the list that share a GradebookID agree on the compared fields.
AgreeOnSharedIDs(s) ==
    \A i, j \in DOMAIN s :
        s[i].GradebookID = s[j].GradebookID =>
            /\ s[i].Name = s[j].Name
            /\ s[i].Score = s[j].Score
            /\ s[i].Points = s[j].Points

NoAssignmentDiff(cc) ==
    /\ cc.AssignmentAdditions = <<>>
    /\ cc.AssignmentRemovals = <<>>
    /\ cc.AssignmentChanges = <<>>

\* C7 as stated: for a paired course whose B assignment list is any
\* permutation of A's list, AssignmentAdditions, AssignmentRemovals and
\* AssignmentChanges are all empty.
C7_AnyPermutation ==
    \A n \in DOMAIN cs.CourseChanges :
        LET cc == cs.CourseChanges[n]
        IN  IsPermutation(AssignmentValues(cc.Course),
                          AssignmentValues(PartnerOf(cc.Course)))
                => NoAssignmentDiff(cc)

\* C7 as amended: for a paired course whose B assignment list is a
\* permutation of A's list, and in which entries that share a GradebookID
\* agree on Name, Score and Points, AssignmentAdditions, AssignmentRemovals
\* and AssignmentChanges are all empty.
C7_PermutationOfConsistentList ==
    \A n \in DOMAIN cs.CourseChanges :
        LET cc == cs.CourseChanges[n]
        IN  ( /\ IsPermutation(AssignmentValues(cc.Course),
                               AssignmentValues(PartnerOf(cc.Course)))
              /\ AgreeOnSharedIDs(AssignmentValues(cc.Course)) )
                => NoAssignmentDiff(cc)

C7_Witness ==
    /\ ReturnedChangeset
    /\ arg.a # arg.b
    /\ visited = {1}
    /\ AssignmentValues(<<"A", 1>>) = <<Quiz, Essay>>
    /\ AssignmentValues(<<"B", 1>>) = <<Essay, Quiz>>
    /\ cs.CourseChanges = <<>>

\* No course or assignment diffing step has run: there is no Changeset.
NothingDiffed == cs = EmptyChangeset /\ normalizedBMap = EmptyMap /\ visited = {}

\* C8 as stated: whenever the label of one snapshot is in semester 1 and the
\* other's is in semester 2, in either argument order, CalcChangeset returns
\* a SemesterMismatchError and no Changeset, and no diffing step has run.
C8_GuardEitherOrder ==
    ( /\ pc # "CalcChangeset"
      /\ \/ InSemester1(LabelOf(arg.a)) /\ InSemester2(LabelOf(arg.b))
         \/ InSemester2(LabelOf(arg.a)) /\ InSemester1(LabelOf(arg.b)) )
        => ReturnedMismatch /\ NothingDiffed

\* C8 as amended: whenever a's label is in semester 1 and b's is in semester
\* 2, or a's label is in semester 2 and not also in semester 1 and b's is in
\* semester 1, CalcChangeset returns a SemesterMismatchError and no
\* Changeset, and no diffing step has run.
C8_GuardUnlessFirstLabelInBoth ==
    ( /\ pc # "CalcChangeset"
      /\ \/ InSemester1(LabelOf(arg.a)) /\ InSemester2(LabelOf(arg.b))
         \/ /\ InSemester2(LabelOf(arg.a)) /\ ~InSemester1(LabelOf(arg.a))
            /\ InSemester1(LabelOf(arg.b)) )
        => ReturnedMismatch /\ NothingDiffed

C8_Witness ==
    /\ ReturnedMismatch
    /\ LabelOf(arg.a) = Q2
    /\ LabelOf(arg.b) = Q3
    /\ ret[1].aSemester = 1
    /\ ret[1].bSemester = 2

\* The label with its letters in upper case.
UpperCase(label) == [i \in DOMAIN label |-> IF label[i] = "q" THEN "Q" ELSE label[i]]

\* C9 as stated: a marker in any letter case classifies the label, so the
\* semester-mismatch error is returned for a pair of labels exactly when it
\* is for the same labels in upper case.
C9_CaseInsensitive ==
    pc # "CalcChangeset" =>
        ( ReturnedMismatch <=>
            ~gradebookSemestersMatch(
                 [CurrentGradingPeriod |-> [Name |-> UpperCase(LabelOf(arg.a))]],
                 [CurrentGradingPeriod |-> [Name |-> UpperCase(LabelOf(arg.b))]]).ok )

\* C9 as amended: the label matching is case-sensitive: a label with no
\* upper-case marker Q1..Q4 (such as "q2") is in no semester, and
\* CalcChangeset returns no semester-mismatch error when either label is
\* such a label.
C9_CaseSensitive ==
    ( /\ pc # "CalcChangeset"
      /\ \/ ~InSemester1(LabelOf(arg.a)) /\ ~InSemester2(LabelOf(arg.a))
         \/ ~InSemester1(LabelOf(arg.b)) /\ ~InSemester2(LabelOf(arg.b)) )
        => ~ReturnedMismatch

C9_Witness ==
    /\ ReturnedChangeset
    /\ LabelOf(arg.a) = <<"q", "2">>
    /\ LabelOf(arg.b) = Q3

DiffedPeriods ==
    IF pc \in {"diffCourseAssignments", "panic"} \/ ReturnedChangeset
    THEN visited \cap DOMAIN cs.aMap \cap DOMAIN cs.bMap
    ELSE {}

\* The CourseChanges emitted for the course ac.
ChangesOf(ac) == {n \in DOMAIN cs.CourseChanges : cs.CourseChanges[n].Course = ac}

GradebookIDsOf(cptr) ==
    {AssignmentValues(cptr)[k].GradebookID : k \in DOMAIN AssignmentValues(cptr)}

RawGradeOf(cptr) == CurrentMarkOf(cptr).RawGradeScore

AssignmentChangeRecords ==
    UNION {Range(cs.CourseChanges[n].AssignmentChanges) : n \in DOMAIN cs.CourseChanges}

\* C12: every emitted CourseAssignmentChange, made for the pair (a, b), has
\* ScoreChange = (b.Score.Score # a.Score.Score), ScoreIncrease =
\* (b.Score.Score > a.Score.Score), PossibleScoreChange = (b.Score.PossibleScore
\* # a.Score.PossibleScore), PointsChange = (b.Points.Points # a.Points.Points)
\* and PointsIncrease = (b.Points.Points > a.Points.Points).
C12_ScoreDeltaSign ==
    \A ch \in AssignmentChangeRecords :
        LET a == AssignmentAt(ch.Before)
            b == AssignmentAt(ch.After)
        IN  /\ ch.ScoreChange = (b.Score.Score # a.Score.Score)
            /\ ch.ScoreIncrease = (b.Score.Score > a.Score.Score)
            /\ ch.PossibleScoreChange = (b.Score.PossibleScore # a.Score.PossibleScore)
            /\ ch.PointsChange = (b.Points.Points # a.Points.Points)
            /\ ch.PointsIncrease = (b.Points.Points > a.Points.Points)

\* A score going from 80 of 100 to 90 of 100.
C12_Witness ==
    /\ ReturnedChangeset
    /\ \E ch \in AssignmentChangeRecords :
          /\ AssignmentAt(ch.Before) = Quiz
          /\ AssignmentAt(ch.After) = QuizRegraded
          /\ ch.ScoreIncrease /\ ch.ScoreChange /\ ~ch.PossibleScoreChange

\* The CourseGradeChange C13 expects for the pair (ac, bc), absent when the
\* raw grades are equal.
ExpectedGradeChange(ac, bc) ==
    LET am == CurrentMarkOf(ac)
        bm == CurrentMarkOf(bc)
    IN  IF bm.RawGradeScore # am.RawGradeScore
        THEN <<[DeltaPct |-> bm.RawGradeScore - am.RawGradeScore,
                GradeIncrease |-> bm.RawGradeScore > am.RawGradeScore,
                PreviousGradePct |-> am.RawGradeScore,
                NewGradePct |-> bm.RawGradeScore,
                PreviousLetterGrade |-> am.LetterGrade,
                NewLetterGrade |-> bm.LetterGrade]>>
        ELSE <<>>

\* C13: for each paired course a CourseGradeChange is attached if and only
\* if the RawGradeScore of B's current mark differs from that of A's; it has
\* DeltaPct = new - previous, GradeIncrease = (DeltaPct > 0), and the
\* percentages and letters of A's and B's current marks.  When the raw
\* grades differ the course has a CourseChange carrying it; when they are
\* equal, no CourseChange of the course carries one, whatever the letters.
C13_GradeChangeDetection ==
    \A p \in DiffedPeriods :
        LET ac == cs.aMap[p]
            bc == cs.bMap[p]
        IN  /\ RawGradeOf(ac) # RawGradeOf(bc) => ChangesOf(ac) # {}
            /\ \A n \in ChangesOf(ac) :
                  cs.CourseChanges[n].GradeChange = ExpectedGradeChange(ac, bc)

\* 88.0 to 85.5: DeltaPct -2.5, no increase.
C13_Witness ==
    /\ ReturnedChangeset
    /\ arg.a # arg.b
    /\ visited = {1}
    /\ RawGradeOf(<<"A", 1>>) = 880
    /\ RawGradeOf(<<"B", 1>>) = 855
    /\ Len(cs.CourseChanges) = 1
    /\ cs.CourseChanges[1].GradeChange # <<>>
    /\ cs.CourseChanges[1].GradeChange[1].DeltaPct = -25
    /\ ~cs.CourseChanges[1].GradeChange[1].GradeIncrease

\* The letter grade alone changes, next to an assignment change that makes
\* the CourseChange visible: it carries no CourseGradeChange.
C13_LetterOnlyReached ==
    /\ ReturnedChangeset
    /\ visited = {1}
    /\ CurrentMarkOf(<<"A", 1>>).LetterGrade # CurrentMarkOf(<<"B", 1>>).LetterGrade
    /\ Len(cs.CourseChanges) = 1
    /\ cs.CourseChanges[1].GradeChange = <<>>

(***************************************************************************)
(* Gradebook.CurrentGradingPeriodIndex                                     *)
(***************************************************************************)
GradingPeriod(index, name) == [Index |-> index, Name |-> name]

\* A Gradebook as the decoder leaves it, before any course is looked at.
DecodedGradebook(periods, current) ==
    [GradingPeriods |-> periods,
     CurrentGradingPeriod |-> [Name |-> current],
     Courses |-> <<>>]

\* Go's x / y on ints: the quotient truncated toward zero.
GoDiv(x, y) ==
    IF (x >= 0) = (y > 0) THEN (IF x >= 0 THEN x ELSE -x) \div (IF y > 0 THEN y ELSE -y)
    ELSE -((IF x >= 0 THEN x ELSE -x) \div (IF y > 0 THEN y ELSE -y))

\* Faulty variant: the Index of the first period of the list, halved.
CurrentGradingPeriodIndexOfFirst(g) ==
    IF g.GradingPeriods = <<>> THEN 0 ELSE GoDiv(g.GradingPeriods[1].Index, 2)

\* The range loop of CurrentGradingPeriodIndex from element k on.
RECURSIVE rangeGradingPeriods(_, _)
rangeGradingPeriods(g, k) ==
    IF k > Len(g.GradingPeriods)
    THEN 0
    ELSE IF g.GradingPeriods[k].Name = g.CurrentGradingPeriod.Name
         THEN GoDiv(g.GradingPeriods[k].Index, 2)
         ELSE rangeGradingPeriods(g, k + 1)

CurrentGradingPeriodIndex(g) == rangeGradingPeriods(g, 1)

\* g.CurrentGradingPeriodIndex() is called on the Gradebook arg.g points to.
CallCurrentGradingPeriodIndex ==
    /\ pc = "CurrentGradingPeriodIndex"
    /\ ret' = <<[type |-> "int", value |-> CurrentGradingPeriodIndex(gb[arg.g])]>>
    /\ pc' = "returned"
    /\ UNCHANGED <<gb, arg, cs, normalizedBMap, visited, prev, handed, decoder>>

PeriodNames == {Q1, Q2, Q3}

GradingPeriodLists ==
    SeqsUpTo({GradingPeriod(i, n) : i \in 0..MaxIndex, n \in PeriodNames \ {Q3}},
             MaxGradingPeriods)

\* A decoded Gradebook: any list of grading periods (names may repeat, the
\* Index attributes are whatever the document says) and any current name.
InitPeriodIndex ==
    /\ \E l \in GradingPeriodLists, n \in PeriodNames :
          gb = [A |-> DecodedGradebook(l, n)]
    /\ arg = [g |-> "A"]
    /\ pc = "CurrentGradingPeriodIndex"
    /\ ret = <<>>
    /\ cs = EmptyChangeset
    /\ normalizedBMap = EmptyMap
    /\ visited = {}
    /\ prev = <<>>
    /\ handed = EmptyMap
    /\ decoder = NoDecoder

NextPeriodIndex == CallCurrentGradingPeriodIndex

SpecPeriodIndex == InitPeriodIndex /\ [][NextPeriodIndex]_vars

\* The positions of the grading periods named as the current one.
CurrentNamePositions(g) ==
    {k \in DOMAIN g.GradingPeriods : g.GradingPeriods[k].Name = g.CurrentGradingPeriod.Name}

Slice(s, from, to) == SubSeq(s, from, to)

\* The first position from k on that holds no white space (Len(s) + 1 if none).
RECURSIVE skipSpaces(_, _)
skipSpaces(s, k) ==
    IF k <= Len(s) /\ s[k] = " " THEN skipSpaces(s, k + 1) ELSE k

\* regexp "(.+?)\s*(\(.+?\))", FindStringSubmatch: nil (<<>>) or the match
\* and its two groups.  The match starts at the leftmost position that
\* admits one; the lazy first group is the shortest that lets the rest
\* match; \s* takes the whole run of white space (what follows it must be
\* "("); the lazy second group ends at the first ")" that leaves it at
\* least one character inside.
FindStringSubmatch(s) ==
    LET open(e) == skipSpaces(s, e + 1)
        closes(e) == {c \in (open(e) + 2)..Len(s) : s[c] = ")"}
        starts == {m \in (1..Len(s)) \X (1..Len(s)) :
                      /\ m[1] <= m[2]
                      /\ open(m[2]) <= Len(s)
                      /\ s[open(m[2])] = "("
                      /\ closes(m[2]) # {}}
    IN  IF starts = {}
        THEN <<>>
        ELSE LET m == CHOOSE x \in starts :
                        \A y \in starts : x[1] < y[1] \/ (x[1] = y[1] /\ x[2] <= y[2])
                 close == CHOOSE c \in closes(m[2]) : \A d \in closes(m[2]) : c <= d
             IN  <<Slice(s, m[1], close), Slice(s, m[1], m[2]),
                   Slice(s, open(m[2]), close)>>

FormatError == [type |-> "error"]

\* The loop over name[1:]: the first group that starts with "(" and ends
\* with ")" gives id and cname (cname = name[i], i counted from 0 in
\* name[1:], so it is the element before the group in name).
CourseIDUnmarshalXMLAttr(value) ==
    LET name == FindStringSubmatch(value)
        wrapped(g) == g[1] = "(" /\ g[Len(g)] = ")"
        hit == IF name = <<>> THEN 0
               ELSE IF wrapped(name[2]) THEN 2
               ELSE IF wrapped(name[3]) THEN 3
               ELSE 0
        id == IF hit = 0 THEN <<>> ELSE Slice(name[hit], 2, Len(name[hit]) - 1)
        cname == IF hit = 0 THEN <<>> ELSE name[hit - 1]
    IN  IF Len(name) # 3
        THEN FormatError
        ELSE IF id = <<>>
             THEN FormatError
             ELSE [type |-> "CourseID", ID |-> id, Name |-> cname]

\* The decoder is applied to the attribute value arg.attr.
DecodeCourseID ==
    /\ pc = "CourseID.UnmarshalXMLAttr"
    /\ ret' = <<CourseIDUnmarshalXMLAttr(arg.attr)>>
    /\ pc' = "returned"
    /\ UNCHANGED <<gb, arg, cs, normalizedBMap, visited, prev, handed, decoder>>

RECURSIVE Concat(_)
Concat(ss) == IF ss = <<>> THEN <<>> ELSE Head(ss) \o Concat(Tail(ss))

TitlePieces ==
    {<<"A">>, <<" ">>, <<"(">>, <<")">>, <<"(", "B", ")">>, <<" ", "(", "B", ")">>,
     <<" ", "(", "1", ")">>}

\* Course titles: "A (1)", "A (B) (1)", and malformed ones.
Titles == {Concat(ss) : ss \in SeqsUpTo(TitlePieces, MaxPieces)}

InitCourseID ==
    /\ \E t \in Titles : arg = [attr |-> t]
    /\ gb = [A |-> DecodedGradebook(<<>>, Q1)]
    /\ pc = "CourseID.UnmarshalXMLAttr"
    /\ ret = <<>>
    /\ cs = EmptyChangeset
    /\ normalizedBMap = EmptyMap
    /\ visited = {}
    /\ prev = <<>>
    /\ handed = EmptyMap
    /\ decoder = NoDecoder

NextCourseID == DecodeCourseID

SpecCourseID == InitCourseID /\ [][NextCourseID]_vars

\* Every parenthesis of s belongs to a group "(...)" with something inside
\* and no parenthesis inside.
RECURSIVE GroupsWellFormed(_, _, _)
GroupsWellFormed(s, k, inside) ==
    IF k > Len(s) THEN inside = 0
    ELSE IF s[k] = "(" THEN inside = 0 /\ GroupsWellFormed(s, k + 1, 1)
    ELSE IF s[k] = ")" THEN inside = 2 /\ GroupsWellFormed(s, k + 1, 0)
    ELSE GroupsWellFormed(s, k + 1, IF inside = 0 THEN 0 ELSE 2)

\* The ways to read the title s as <name> (<id>): s is made of well-formed
\* groups, the last of them ends s and holds the id, and what is before it,
\* less the white space in between, is the name.
TitleReadings(s) ==
    {r \in [name : {Slice(s, 1, k) : k \in 1..Len(s)},
            id : {Slice(s, i, j) : i, j \in 1..Len(s)}] :
        /\ r.id # <<>>
        /\ GroupsWellFormed(s, 1, 0)
        /\ \A k \in DOMAIN r.id : r.id[k] \notin {"(", ")"}
        /\ r.name[Len(r.name)] # " "
        /\ \E n \in 0..Len(s) :
              /\ s = r.name \o [k \in 1..n |-> " "] \o <<"(">> \o r.id \o <<")">>}

\* C15: on a title that ends in a well-formed parenthesized group, the
\* decoder takes that last group as the ID and everything before it as the
\* Name, also when the name has a parenthesized group of its own; on a title
\* with no parenthesized group it returns a format error.
C15_LastGroupIsID ==
    (pc = "returned" /\ ret[1].type \in {"CourseID", "error"}) =>
        /\ \A r \in TitleReadings(arg.attr) :
              /\ ret[1].type = "CourseID"
              /\ ret[1].ID = r.id
              /\ ret[1].Name = r.name
        /\ (\A k \in DOMAIN arg.attr : arg.attr[k] # "(") => ret[1] = FormatError

\* The decoder's reading of "A (B) (1)".
C15_FirstGroupTaken ==
    /\ pc = "returned"
    /\ arg.attr = <<"A", " ", "(", "B", ")", " ", "(", "1", ")">>
    /\ ret[1] = [type |-> "CourseID", ID |-> <<"B">>, Name |-> <<"A">>]

(***************************************************************************)
(* Percentage.UnmarshalXMLAttr                                             *)
(***************************************************************************)
DigitValue(c) == IF c = "8" THEN 8 ELSE 5

IsDigit(c) == c \in {"8", "5"}

\* The digits ds read as a decimal numeral.
RECURSIVE Numeral(_)
Numeral(ds) ==
    IF ds = <<>> THEN 0 ELSE 10 * Numeral(Slice(ds, 1, Len(ds) - 1)) + DigitValue(ds[Len(ds)])

\* What one unit of a parsed number stands for: 10^-MaxChars.
RECURSIVE Pow10(_)
Pow10(n) == IF n = 0 THEN 1 ELSE 10 * Pow10(n - 1)

\* strconv.ParseFloat(s, 64) on strings of digits, "." and other
\* characters: digits with at most one ".", at least one digit; the value
\* in units of 10^-MaxChars.
ParseFloat(s) ==
    LET dots == {k \in DOMAIN s : s[k] = "."}
        wellFormed == /\ \A k \in DOMAIN s : IsDigit(s[k]) \/ s[k] = "."
                      /\ Cardinality(dots) <= 1
                      /\ \E k \in DOMAIN s : IsDigit(s[k])
        dot == IF dots = {} THEN Len(s) + 1 ELSE CHOOSE k \in dots : TRUE
        whole == Slice(s, 1, dot - 1)
        frac == Slice(s, dot + 1, Len(s))
    IN  IF wellFormed
        THEN [err |-> FALSE,
              f |-> Numeral(whole) * Pow10(MaxChars)
                        + Numeral(frac) * Pow10(MaxChars - Len(frac))]
        ELSE [err |-> TRUE, f |-> 0]

\* The decoder on a value that has a last character.
PercentageUnmarshalXMLAttr(pct) ==
    IF pct[Len(pct)] # "%"
    THEN FormatError
    ELSE LET r == ParseFloat(Slice(pct, 1, Len(pct) - 1))
         IN  IF r.err THEN FormatError ELSE [type |-> "Percentage", float64 |-> r.f]

DecodePercentage ==
    /\ pc = "Percentage.UnmarshalXMLAttr"
    /\ arg.attr # <<>>
    /\ ret' = <<PercentageUnmarshalXMLAttr(arg.attr)>>
    /\ pc' = "returned"
    /\ UNCHANGED <<gb, arg, cs, normalizedBMap, visited, prev, handed, decoder>>

\* On the empty value pct[len(pct)-1] is pct[-1]: an index out of range,
\* which aborts the program.
IndexEmptyPercentage ==
    /\ pc = "Percentage.UnmarshalXMLAttr"
    /\ arg.attr = <<>>
    /\ pc' = "panic"
    /\ UNCHANGED <<gb, arg, ret, cs, normalizedBMap, visited, prev, handed, decoder>>

PercentageChars == {"8", "5", ".", "%", "x"}

InitPercentage ==
    /\ \E v \in SeqsUpTo(PercentageChars, MaxChars) : arg = [attr |-> v]
    /\ gb = [A |-> DecodedGradebook(<<>>, Q1)]
    /\ pc = "Percentage.UnmarshalXMLAttr"
    /\ ret = <<>>
    /\ cs = EmptyChangeset
    /\ normalizedBMap = EmptyMap
    /\ visited = {}
    /\ prev = <<>>
    /\ handed = EmptyMap
    /\ decoder = NoDecoder

NextPercentage == DecodePercentage \/ IndexEmptyPercentage

SpecPercentage == InitPercentage /\ [][NextPercentage]_vars

\* C16: the percentage decoder is total: for every attribute string, the
\* empty string included, it returns a number (only for a string that ends
\* in "%") or a format error, and never aborts.
C16_PercentageDecoderTotal ==
    /\ pc # "panic"
    /\ pc = "returned" =>
          /\ ret[1].type \in {"Percentage", "error"}
          /\ ret[1].type = "Percentage" =>
                arg.attr # <<>> /\ arg.attr[Len(arg.attr)] = "%"

\* "8.%" decodes to 8.
C16_DecodesPercentage ==
    /\ pc = "returned"
    /\ arg.attr = <<"8", ".", "%">>
    /\ ret[1] = [type |-> "Percentage", float64 |-> 8 * Pow10(MaxChars)]

\* C17: the normalized pairing map maps a period only to a course object of
\* snapshot B, and a period A retains only to one whose stable ID equals
\* that of the A course at that period: a leftover B course whose ID matches
\* an already paired A course does not replace the pairing, and no A course
\* is ever paired with itself (b being another snapshot than a).
C17_PairsOnlyWithBCourseOfSameID ==
    arg.a # arg.b =>
        \A p \in DOMAIN normalizedBMap :
            /\ normalizedBMap[p][1] = arg.b
            /\ p \in DOMAIN cs.aMap => IDOf(cs.aMap[p]) = IDOf(normalizedBMap[p])

\* A = [ENG101 at 1], B = [ENG101 at 1, ENG101 at 2]: the pairing of period 1
\* is replaced by A's own course, and the call returns.
C17_PairedWithItself ==
    /\ ReturnedChangeset
    /\ arg.a # arg.b
    /\ Len(gb.A.Courses) = 1
    /\ Len(gb.B.Courses) = 2
    /\ cs.aMap = (1 :> <<"A", 1>>)
    /\ cs.bMap = (1 :> <<"A", 1>>)

\* The elements of the list s, as a set.
Elements(s) == {s[k] : k \in DOMAIN s}

\* The pointers to the assignments of c.CurrentMark.
AssignmentPointers(cptr) ==
    {cptr \o <<CourseAt(cptr).CurrentMark, k>> : k \in DOMAIN CurrentAssignments(cptr)}

GradebookIDOf(aptr) == AssignmentAt(aptr).GradebookID

NoRepeatedID(cptr) ==
    \A x, y \in AssignmentPointers(cptr) : GradebookIDOf(x) = GradebookIDOf(y) => x = y

\* How often diffAssignments was called with a as its first argument, and
\* with b as its second.
TimesDiffedAsA(a) ==
    LET ps == {pr \in DOMAIN handed : pr[1] = a}
        RECURSIVE Sum(_)
        Sum(S) == IF S = {} THEN 0
                  ELSE LET x == CHOOSE x \in S : TRUE IN handed[x] + Sum(S \ {x})
    IN  Sum(ps)

TimesDiffedAsB(b) ==
    LET ps == {pr \in DOMAIN handed : pr[2] = b}
        RECURSIVE Sum(_)
        Sum(S) == IF S = {} THEN 0
                  ELSE LET x == CHOOSE x \in S : TRUE IN handed[x] + Sum(S \ {x})
    IN  Sum(ps)

\* The lists of the CourseChange emitted for ac, empty when there is none.
ListsOf(ac) ==
    IF ChangesOf(ac) = {}
    THEN [AssignmentRemovals |-> <<>>, AssignmentAdditions |-> <<>>]
    ELSE LET cc == cs.CourseChanges[CHOOSE n \in ChangesOf(ac) : TRUE]
         IN  [AssignmentRemovals |-> cc.AssignmentRemovals,
              AssignmentAdditions |-> cc.AssignmentAdditions]

\* C18: for a paired course whose two assignment lists have no repeated
\* GradebookID, whatever their lengths: AssignmentRemovals is exactly the A
\* assignments whose ID is absent from B (each listed once),
\* AssignmentAdditions exactly the B assignments whose ID is absent from A,
\* and the two assignments of every ID present in both lists are handed to
\* diffAssignments together, exactly once, and no other pair is.
C18_SetBasedResult ==
    \A p \in DiffedPeriods :
        LET ac == cs.aMap[p]
            bc == cs.bMap[p]
            as == AssignmentPointers(ac)
            bs == AssignmentPointers(bc)
            l == ListsOf(ac)
        IN  (NoRepeatedID(ac) /\ NoRepeatedID(bc)) =>
               /\ Elements(l.AssignmentRemovals) =
                     {a \in as : \A b \in bs : GradebookIDOf(b) # GradebookIDOf(a)}
               /\ Elements(l.AssignmentAdditions) =
                     {b \in bs : \A a \in as : GradebookIDOf(a) # GradebookIDOf(b)}
               /\ Len(l.AssignmentRemovals) = Cardinality(Elements(l.AssignmentRemovals))
               /\ Len(l.AssignmentAdditions) = Cardinality(Elements(l.AssignmentAdditions))
               /\ \A a \in as, b \in bs :
                     IF GradebookIDOf(a) = GradebookIDOf(b)
                     THEN <<a, b>> \in DOMAIN handed /\ handed[<<a, b>>] = 1
                     ELSE <<a, b>> \notin DOMAIN handed

\* A longer than B, the shared ID at different positions: A = [Essay, Quiz],
\* B = [Quiz regraded].
C18_Witness ==
    /\ ReturnedChangeset
    /\ arg.a # arg.b
    /\ visited = {1}
    /\ AssignmentValues(<<"A", 1>>) = <<Essay, Quiz>>
    /\ AssignmentValues(<<"B", 1>>) = <<QuizRegraded>>
    /\ handed = (<< <<"A", 1, 1, 2>>, <<"B", 1, 1, 1>> >> :> 1)
    /\ Len(cs.CourseChanges) = 1
    /\ cs.CourseChanges[1].AssignmentRemovals = << <<"A", 1, 1, 1>> >>
    /\ cs.CourseChanges[1].AssignmentAdditions = <<>>

\* B longer than A: A = [Quiz], B = [Essay, Quiz].
C18_ShorterAReached ==
    /\ ReturnedChangeset
    /\ arg.a # arg.b
    /\ visited = {1}
    /\ AssignmentValues(<<"A", 1>>) = <<Quiz>>
    /\ AssignmentValues(<<"B", 1>>) = <<Essay, Quiz>>
    /\ handed = (<< <<"A", 1, 1, 1>>, <<"B", 1, 1, 2>> >> :> 1)
    /\ cs.CourseChanges[1].AssignmentAdditions = << <<"B", 1, 1, 1>> >>

\* C19: for every paired course each assignment of A's current mark is
\* accounted for exactly once (diffed against one B assignment, or listed in
\* AssignmentRemovals) and each assignment of B's current mark exactly once
\* (diffed against one A assignment, or listed in AssignmentAdditions), also
\* when a GradebookID repeats within a list.
C19_AssignmentConservation ==
    \A p \in DiffedPeriods :
        LET ac == cs.aMap[p]
            bc == cs.bMap[p]
            l == ListsOf(ac)
        IN  /\ \A a \in AssignmentPointers(ac) :
                  TimesDiffedAsA(a) + Occurrences(l.AssignmentRemovals, a) = 1
            /\ \A b \in AssignmentPointers(bc) :
                  TimesDiffedAsB(b) + Occurrences(l.AssignmentAdditions, b) = 1

\* A = [Quiz, Quiz 1] (one GradebookID twice), B = [Essay]: the first Quiz is
\* neither diffed nor removed.
C19_AssignmentLost ==
    /\ ReturnedChangeset
    /\ arg.a # arg.b
    /\ visited = {1}
    /\ AssignmentValues(<<"A", 1>>) = <<Quiz, QuizRenamed>>
    /\ AssignmentValues(<<"B", 1>>) = <<Essay>>
    /\ handed = EmptyMap
    /\ cs.CourseChanges[1].AssignmentRemovals = << <<"A", 1, 1, 2>> >>

\* The stable IDs of the courses a snapshot's period map holds.
MapIDsOf(g) == {IDOf(c) : c \in MapCourses(g)}

\* C20 as stated: CourseAdditions contains exactly the courses of B's period
\* map whose stable ID is the stable ID of no course in A (each of them
\* once), whatever the iteration order.
C20_AdditionsAreBCoursesNotInA ==
    (CourseSetsDiffed /\ arg.a # arg.b) =>
        /\ Range(cs.CourseAdditions) =
              {bc \in MapCourses(arg.b) : IDOf(bc) \notin IDsOf(arg.a)}
        /\ Len(cs.CourseAdditions) = Cardinality(Range(cs.CourseAdditions))

\* C20 as amended: CourseAdditions contains exactly the courses of B's
\* period map whose stable ID is the stable ID of no course in A's period
\* map (each of them once), whatever the iteration order.
C20_AdditionsAreBCoursesNotInAMap ==
    (CourseSetsDiffed /\ arg.a # arg.b) =>
        /\ Range(cs.CourseAdditions) =
              {bc \in MapCourses(arg.b) : IDOf(bc) \notin MapIDsOf(arg.a)}
        /\ Len(cs.CourseAdditions) = Cardinality(Range(cs.CourseAdditions))

\* B = [ENG101 at 1, MATH201 at 2], A = [ENG101 at 2]: ENG101 is a switch,
\* MATH201 the one addition.
C20_Witness ==
    /\ ReturnedChangeset
    /\ arg.a # arg.b
    /\ Len(gb.A.Courses) = 1
    /\ Len(gb.B.Courses) = 2
    /\ IDOf(<<"A", 1>>) = IDOf(<<"B", 1>>)
    /\ CourseAt(<<"A", 1>>).Period = CourseAt(<<"B", 2>>).Period
    /\ IDOf(<<"B", 2>>) # IDOf(<<"B", 1>>)
    /\ cs.CourseAdditions = << <<"B", 2>> >>

\* C21: every emitted CourseSwitch has Before.ID.ID = After.ID.ID,
\* BeforePeriod = Before.Period, AfterPeriod = After.Period and BeforePeriod
\* # AfterPeriod, Before being a course of A and After a course of B.
C21_SwitchWellFormed ==
    \A n \in DOMAIN cs.CourseSwitches :
        LET sw == cs.CourseSwitches[n]
        IN  /\ sw.Before[1] = arg.a
            /\ sw.After[1] = arg.b
            /\ IDOf(sw.Before) = IDOf(sw.After)
            /\ sw.BeforePeriod = CourseAt(sw.Before).Period
            /\ sw.AfterPeriod = CourseAt(sw.After).Period
            /\ sw.BeforePeriod # sw.AfterPeriod

\* A = [ENG101 at 1, MATH201 at 2], B = [MATH201 at 1, ENG101 at 2]: both
\* courses switch, each found while the other still occupies its period.
C21_Witness ==
    /\ ReturnedChangeset
    /\ arg.a # arg.b
    /\ Len(cs.CourseSwitches) = 2
    /\ Len(gb.A.Courses) = 2
    /\ Len(gb.B.Courses) = 2
    /\ IDOf(<<"A", 1>>) # IDOf(<<"A", 2>>)
    /\ \E n \in {1, 2} :
          /\ cs.CourseSwitches[n].Before = <<"A", 1>>
          /\ cs.CourseSwitches[n].BeforePeriod = 1
          /\ cs.CourseSwitches[n].AfterPeriod = 2

\* The B courses of the CourseSwitches.
SwitchAfters == {cs.CourseSwitches[n].After : n \in DOMAIN cs.CourseSwitches}

\* C22: no course of B is used twice: over the pairings the pairing map
\* holds and the After entries of the CourseSwitches each B course occurs
\* at most once (no two periods are paired with one B course, no two
\* switches end at one B course, and the B course of a switch is paired
\* with that switch's A period only), and a B course that was paired never
\* appears in CourseAdditions; for every iteration order, also when stable
\* IDs repeat inside a snapshot.
C22_NoBCourseUsedTwice ==
    /\ \A p, q \in DOMAIN normalizedBMap :
          (p # q /\ normalizedBMap[p][1] = arg.b) => normalizedBMap[p] # normalizedBMap[q]
    /\ \A m, n \in DOMAIN cs.CourseSwitches :
          m # n => cs.CourseSwitches[m].After # cs.CourseSwitches[n].After
    /\ \A n \in DOMAIN cs.CourseSwitches :
          \A p \in DOMAIN normalizedBMap :
              normalizedBMap[p] = cs.CourseSwitches[n].After
                  => p = cs.CourseSwitches[n].BeforePeriod
    /\ arg.a # arg.b =>
          Range(cs.CourseAdditions) \cap (Range(normalizedBMap) \cup SwitchAfters) = {}

\* A = [ENG101 at 1, ENG101 at 2], B = [ENG101 at 2]: period 1 is visited
\* first and takes B's course as a switch; period 2 finds the pool empty.
C22_Witness ==
    /\ ReturnedChangeset
    /\ arg.a # arg.b
    /\ Len(gb.A.Courses) = 2
    /\ Len(gb.B.Courses) = 1
    /\ IDOf(<<"A", 1>>) = IDOf(<<"A", 2>>)
    /\ Len(cs.CourseSwitches) = 1
    /\ cs.CourseSwitches[1].After = <<"B", 1>>
    /\ cs.CourseSwitches[1].AfterPeriod = 2
    /\ cs.CourseDrops = << <<"A", 2>> >>

\* A snapshot less the marks that are not the current mark of their course.
CurrentMarksOnly(g) ==
    [CurrentGradingPeriod |-> gb[g].CurrentGradingPeriod,
     Courses |-> [i \in DOMAIN gb[g].Courses |->
                     LET c == gb[g].Courses[i]
                     IN  [Period |-> c.Period, ID |-> c.ID,
                          CurrentMark |-> c.Marks[c.CurrentMark]]]]

\* C23: only the current mark is compared: two snapshots that differ solely
\* in marks other than each course's CurrentMark produce an empty
\* CourseChanges.
C23_OnlyCurrentMarkCompared ==
    CurrentMarksOnly(arg.a) = CurrentMarksOnly(arg.b) =>
        /\ cs.CourseChanges = <<>>
        /\ pc # "panic"

\* The current marks are equal, the marks of the other grading period differ
\* in grade and assignments, and the current mark is the second of A's marks
\* and the first of B's.
C23_Witness ==
    /\ ReturnedChangeset
    /\ visited = {1}
    /\ arg.a # arg.b
    /\ CurrentMarksOnly("A") = CurrentMarksOnly("B")
    /\ gb.A.Courses[1].CurrentMark = 2
    /\ gb.B.Courses[1].CurrentMark = 1
    /\ Len(gb.A.Courses[1].Marks) = 2
    /\ gb.A.Courses[1].Marks[1].RawGradeScore # gb.B.Courses[1].Marks[2].RawGradeScore
    /\ gb.A.Courses[1].Marks[1] # gb.B.Courses[1].Marks[1]
    /\ cs.CourseChanges = <<>>

\* The CourseAssignmentChanges emitted for the pair (a, b).
RecordsOf(a, b) == {ch \in AssignmentChangeRecords : ch.Before = a /\ ch.After = b}

\* One of the five compared fields differs.
ComparedFieldsDiffer(x, y) ==
    \/ x.Name # y.Name
    \/ x.Score.Score # y.Score.Score
    \/ x.Score.PossibleScore # y.Score.PossibleScore
    \/ x.Points.Points # y.Points.Points
    \/ x.Points.PossiblePoints # y.Points.PossiblePoints

\* C24: the pairwise diff produces a CourseAssignmentChange for a matched
\* pair (a, b) if and only if one of Name, Score.Score, Score.PossibleScore,
\* Points.Points, Points.PossiblePoints differs (so not for a difference in
\* Graded, Type, ScoreType, Date, DueDate or Notes alone); its NameChange
\* says whether the names differ, and for a name-only edit every other flag
\* is false.
C24_RecordIffComparedFieldDiffers ==
    \A pr \in DOMAIN handed :
        LET x == AssignmentAt(pr[1])
            y == AssignmentAt(pr[2])
        IN  /\ RecordsOf(pr[1], pr[2]) # {} <=> ComparedFieldsDiffer(x, y)
            /\ \A ch \in RecordsOf(pr[1], pr[2]) :
                  /\ ch.NameChange = (x.Name # y.Name)
                  /\ (x.Score = y.Score /\ x.Points = y.Points) =>
                        /\ ~ch.ScoreChange /\ ~ch.ScoreIncrease /\ ~ch.PossibleScoreChange
                        /\ ~ch.PointsChange /\ ~ch.PointsIncrease
                        /\ ~ch.PossiblePointsIncrease

\* A name-only edit, Quiz to Quiz 1.
C24_Witness ==
    /\ ReturnedChangeset
    /\ \E pr \in DOMAIN handed :
          /\ AssignmentAt(pr[1]) = Quiz
          /\ AssignmentAt(pr[2]) = QuizRenamed
          /\ \E ch \in RecordsOf(pr[1], pr[2]) : ch.NameChange /\ ~ch.ScoreChange

\* A pair that differs in Graded only, and one that differs in Notes only,
\* have been diffed without a record.
C24_UncomparedFieldReached ==
    /\ ReturnedChangeset
    /\ \E pr \in DOMAIN handed :
          /\ AssignmentAt(pr[1]) = Quiz
          /\ AssignmentAt(pr[2]) \in {QuizUngraded, QuizAnnotated}
          /\ RecordsOf(pr[1], pr[2]) = {}

(***************************************************************************)
(* decodeStudentGrades                                                     *)
(* The response is kept by what matters to the function: what respIsOk    *)
(* makes of its token stream, and what d.Decode makes of its document      *)
(* (<<>> for a decoding error, <<g>> for the Gradebook g).                 *)
(***************************************************************************)
SVUEError(code) == [type |-> "SVUEError", Code |-> code]

\* A Gradebook as d.Decode fills it: CurrentMark is not an attribute of the
\* document, so it is nil (0) in every course.
DecodedGrades(periods, current, courses) ==
    [GradingPeriods |-> periods, CurrentGradingPeriod |-> current, Courses |-> courses]

\* new(Gradebook)
NewGradebook == DecodedGrades(<<>>, <<>>, <<>>)

\* respIsOk returned an error: decodeStudentGrades returns it.
ReturnRespError ==
    /\ pc = "decodeStudentGrades"
    /\ arg.sVueResp.scan \in {"RT_ERROR", "EOF"}
    /\ \E code \in IF arg.sVueResp.scan = "EOF"
                  THEN {"DecodingError"}
                  ELSE {"DecodingError", "InvalidCredentialsError", "UnexpectedError"} :
          ret' = <<SVUEError(code)>>
    /\ pc' = "returned"
    /\ UNCHANGED <<gb, arg, cs, normalizedBMap, visited, prev, handed, decoder>>

\* respIsOk returned a decoder and d.Decode(gb) fails.
ReturnDecodeError ==
    /\ pc = "decodeStudentGrades"
    /\ arg.sVueResp.scan = "expected"
    /\ arg.sVueResp.decoded = <<>>
    /\ ret' = <<SVUEError("DecodingError")>>
    /\ pc' = "returned"
    /\ UNCHANGED <<gb, arg, cs, normalizedBMap, visited, prev, handed, decoder>>

\* respIsOk returned a decoder and d.Decode(gb) fills gb: go on to the loop
\* over gb.Courses.
DecodeGradebook ==
    /\ pc = "decodeStudentGrades"
    /\ arg.sVueResp.scan = "expected"
    /\ arg.sVueResp.decoded # <<>>
    /\ gb' = [A |-> arg.sVueResp.decoded[1]]
    /\ visited' = {}
    /\ pc' = "rangeCourses"
    /\ UNCHANGED <<arg, ret, cs, normalizedBMap, prev, handed, decoder>>

\* The course the loop over gb.Courses produces next (visited holds the
\* indexes already produced).
NextCourseIndex == Cardinality(visited) + 1

\* One iteration: c.CurrentMark = c.Marks[gb.CurrentGradingPeriodIndex()],
\* the index being inside c.Marks.  CurrentMark is kept as the position in
\* Marks, counted from 1.
SetCurrentMark ==
    /\ pc = "rangeCourses"
    /\ NextCourseIndex <= Len(gb.A.Courses)
    /\ LET index == CurrentGradingPeriodIndex(gb.A)
       IN  /\ index < Len(gb.A.Courses[NextCourseIndex].Marks)
           /\ gb' = [gb EXCEPT !.A.Courses[NextCourseIndex].CurrentMark = index + 1]
    /\ visited' = visited \cup {NextCourseIndex}
    /\ UNCHANGED <<arg, pc, ret, cs, normalizedBMap, prev, handed, decoder>>

\* The same iteration with the index past the end of c.Marks: the index
\* expression is out of range, which aborts the program.
IndexMarksOutOfRange ==
    /\ pc = "rangeCourses"
    /\ NextCourseIndex <= Len(gb.A.Courses)
    /\ CurrentGradingPeriodIndex(gb.A) >= Len(gb.A.Courses[NextCourseIndex].Marks)
    /\ pc' = "panic"
    /\ UNCHANGED <<gb, arg, ret, cs, normalizedBMap, visited, prev, handed, decoder>>

\* The loop is exhausted: return gb.
ReturnGradebook ==
    /\ pc = "rangeCourses"
    /\ NextCourseIndex > Len(gb.A.Courses)
    /\ ret' = <<[type |-> "Gradebook", gb |-> "A"]>>
    /\ pc' = "returned"
    /\ UNCHANGED <<gb, arg, cs, normalizedBMap, visited, prev, handed, decoder>>

\* The name of the grading period with the Index i.
PeriodName(i) == <<"P", i>>

\* The school's grading periods, in order, each with its place as Index.
SchoolPeriods(n) == [k \in 1..n |-> GradingPeriod(k - 1, PeriodName(k - 1))]

\* Courses as decoded: any number of marks up to MaxMarks, CurrentMark nil.
DecodedCourses ==
    {Course(1, "ENG101", [k \in 1..n |-> CourseMark("B", 880, <<>>)], 0) : n \in 0..MaxMarks}

\* The documents that decode: the list of grading periods (whole, or cut
\* short), any of the school's periods as the current one, any courses.
DecodedDocuments ==
    {DecodedGrades(SchoolPeriods(n), GradingPeriod(i, PeriodName(i)), courses) :
        n \in {MaxGradingPeriods, MaxIndex + 1},
        i \in 0..MaxIndex,
        courses \in SeqsUpTo(DecodedCourses, MaxCourses)}

\* On a token stream that ends in a syntax error respIsOk does not return
\* (see ReadToken below): no step of decodeStudentGrades follows.
Responses ==
    {[scan |-> sc, decoded |-> <<>>] : sc \in {"expected", "RT_ERROR", "EOF", "SyntaxError"}}
        \cup {[scan |-> "expected", decoded |-> <<g>>] : g \in DecodedDocuments}

InitDecodeGrades ==
    /\ \E r \in Responses : arg = [sVueResp |-> r]
    /\ gb = [A |-> NewGradebook]
    /\ pc = "decodeStudentGrades"
    /\ ret = <<>>
    /\ cs = EmptyChangeset
    /\ normalizedBMap = EmptyMap
    /\ visited = {}
    /\ prev = <<>>
    /\ handed = EmptyMap
    /\ decoder = NoDecoder

NextDecodeGrades ==
    \/ ReturnRespError
    \/ ReturnDecodeError
    \/ DecodeGradebook
    \/ SetCurrentMark
    \/ IndexMarksOutOfRange
    \/ ReturnGradebook

SpecDecodeGrades == InitDecodeGrades /\ [][NextDecodeGrades]_vars

\* C25: after a successful decodeStudentGrades every course c of the
\* returned Gradebook has c.CurrentMark = c.Marks[CurrentGradingPeriod.Index
\* / 2], that index being inside c.Marks; and decoding never aborts, whatever
\* the number of marks of a course.
C25_CurrentMarkInBounds ==
    /\ pc # "panic"
    /\ (pc = "returned" /\ ret[1].type = "Gradebook") =>
          \A i \in DOMAIN gb.A.Courses :
              LET c == gb.A.Courses[i]
                  half == CHOOSE h \in 0..MaxIndex :
                             2 * h <= gb.A.CurrentGradingPeriod.Index
                             /\ gb.A.CurrentGradingPeriod.Index <= 2 * h + 1
              IN  c.CurrentMark = half + 1 /\ c.CurrentMark \in DOMAIN c.Marks

\* A Gradebook whose courses all have enough marks is returned with the
\* second mark as the current one.
C25_DecodedReached ==
    /\ pc = "returned"
    /\ ret[1].type = "Gradebook"
    /\ Len(gb.A.Courses) = 2
    /\ gb.A.CurrentGradingPeriod.Index = 2
    /\ \A i \in {1, 2} : gb.A.Courses[i].CurrentMark = 2

(***************************************************************************)
(* respIsOk                                                                *)
(* A response body is the tokens the tokenizer produces from it and what   *)
(* it reports after them: "EOF" at the end of a complete body, or          *)
(* "SyntaxError" where the body is malformed or truncated.  A token is     *)
(* the StartElement of the expected element ("expected"), of RT_ERROR, of  *)
(* another element ("other"), or not a StartElement ("text").              *)
(***************************************************************************)
\* xml.NewDecoder(strings.NewReader(sVueResp.Result))
NewDecoder == [offset |-> 0, t |-> "nil", err |-> "nil"]

\* d.Token(): the next token, or nil and the error the tokenizer reports at
\* the end of the tokens; the decoder keeps that error and returns it again
\* on every later call.
Token(dcd, body) ==
    IF dcd.offset < Len(body.tokens)
    THEN [offset |-> dcd.offset + 1, t |-> body.tokens[dcd.offset + 1], err |-> "nil"]
    ELSE [offset |-> dcd.offset, t |-> "nil", err |-> body.end]

\* respIsOk is entered: d is made.
EnterRespIsOk ==
    /\ pc = "respIsOk"
    /\ decoder = NoDecoder
    /\ decoder' = <<NewDecoder>>
    /\ pc' = "TokenLoop"
    /\ UNCHANGED <<gb, arg, ret, cs, normalizedBMap, visited, prev, handed>>

\* t, err := d.Token(), at the head of the loop.
ReadToken ==
    /\ pc = "TokenLoop"
    /\ decoder' = <<Token(decoder[1], arg.sVueResp)>>
    /\ pc' = "err == io.EOF"
    /\ UNCHANGED <<gb, arg, ret, cs, normalizedBMap, visited, prev, handed>>

\* err == io.EOF: return a decoding error.
ReturnAtEOF ==
    /\ pc = "err == io.EOF"
    /\ decoder[1].err = "EOF"
    /\ ret' = <<SVUEError("DecodingError")>>
    /\ pc' = "returned"
    /\ UNCHANGED <<gb, arg, cs, normalizedBMap, visited, prev, handed, decoder>>

\* The expected element: break out of the loop and return a fresh decoder.
ReturnFreshDecoder ==
    /\ pc = "err == io.EOF"
    /\ decoder[1].err # "EOF"
    /\ decoder[1].t = "expected"
    /\ ret' = <<[type |-> "Decoder", d |-> NewDecoder]>>
    /\ pc' = "returned"
    /\ UNCHANGED <<gb, arg, cs, normalizedBMap, visited, prev, handed, decoder>>

\* RT_ERROR: return what decodeRespError makes of the body.
ReturnServerError ==
    /\ pc = "err == io.EOF"
    /\ decoder[1].err # "EOF"
    /\ decoder[1].t = "RT_ERROR"
    /\ \E code \in {"DecodingError", "InvalidCredentialsError", "UnexpectedError"} :
          ret' = <<SVUEError(code)>>
    /\ pc' = "returned"
    /\ UNCHANGED <<gb, arg, cs, normalizedBMap, visited, prev, handed, decoder>>

\* Another StartElement, a token that is no StartElement, or no token at
\* all (t is nil when err is not nil): continue with the next iteration.
ContinueTokenLoop ==
    /\ pc = "err == io.EOF"
    /\ decoder[1].err # "EOF"
    /\ decoder[1].t \notin {"expected", "RT_ERROR"}
    /\ pc' = "TokenLoop"
    /\ UNCHANGED <<gb, arg, ret, cs, normalizedBMap, visited, prev, handed, decoder>>

TokenKinds == {"expected", "RT_ERROR", "other", "text"}

Bodies ==
    {[tokens |-> ts, end |-> e] :
        ts \in SeqsUpTo(TokenKinds, MaxTokens), e \in {"EOF", "SyntaxError"}}

InitRespIsOk ==
    /\ \E body \in Bodies : arg = [sVueResp |-> body, expectedElement |-> "Gradebook"]
    /\ gb = [A |-> NewGradebook]
    /\ pc = "respIsOk"
    /\ ret = <<>>
    /\ cs = EmptyChangeset
    /\ normalizedBMap = EmptyMap
    /\ visited = {}
    /\ prev = <<>>
    /\ handed = EmptyMap
    /\ decoder = NoDecoder

NextRespIsOk ==
    \/ EnterRespIsOk
    \/ ReadToken
    \/ ReturnAtEOF
    \/ ReturnFreshDecoder
    \/ ReturnServerError
    \/ ContinueTokenLoop

\* respIsOk runs on: a step that can be taken is taken.
SpecRespIsOk == InitRespIsOk /\ [][NextRespIsOk]_vars /\ WF_vars(NextRespIsOk)

\* C26: respIsOk terminates on every response body: it eventually returns
\* (a fresh decoder, the translated server error or a decoding error), also
\* when the tokenizer reports an error other than end-of-input.
C26_RespIsOkTerminates == <>(pc = "returned")

\* The loop is back at its head with the tokenizer's error already reported.
C26_ErrorReadAgain ==
    /\ pc = "TokenLoop"
    /\ decoder[1].err = "SyntaxError"

\* The courses of the two snapshots that a later course of the same
\* snapshot shares its Period with.
ShadowedCourses ==
    {c \in UNION {{<<g, i>> : i \in DOMAIN gb[g].Courses} : g \in {arg.a, arg.b}} :
        \E j \in DOMAIN gb[c[1]].Courses :
            j > c[2] /\ gb[c[1]].Courses[j].Period = gb[c[1]].Courses[c[2]].Period}

\* The courses that take part in the diff or are reported by it.
CoursesInDiff ==
    Range(cs.aMap) \cup Range(cs.bMap) \cup Range(normalizedBMap)
        \cup Range(cs.CourseDrops) \cup Range(cs.CourseAdditions)
        \cup {cs.CourseSwitches[n].Before : n \in DOMAIN cs.CourseSwitches}
        \cup SwitchAfters
        \cup {cs.CourseChanges[n].Course : n \in DOMAIN cs.CourseChanges}

\* C27: when two courses of one snapshot's Courses share the same Period,
\* only the one that comes last takes part in the diff (the period maps the
\* diff starts from hold every course but the earlier ones): the earlier
\* one appears in none of CourseSwitches, CourseDrops, CourseAdditions and
\* CourseChanges.
C27_EarlierCourseOfPeriodIgnored ==
    /\ ShadowedCourses \cap CoursesInDiff = {}
    /\ (pc = "diffCourseSets" /\ visited = {}) =>
          Range(cs.aMap) \cup Range(cs.bMap) =
              UNION {{<<g, i>> : i \in DOMAIN gb[g].Courses} : g \in {arg.a, arg.b}}
                  \ ShadowedCourses

\* A = [ENG101 at 1, MATH201 at 1], B = [MATH201 at 1, ENG101 at 2]: A's
\* ENG101 is ignored, so B's ENG101 is reported as an addition.
C27_Witness ==
    /\ ReturnedChangeset
    /\ arg.a # arg.b
    /\ Len(gb.A.Courses) = 2
    /\ Len(gb.B.Courses) = 2
    /\ ShadowedCourses = {<<"A", 1>>}
    /\ IDOf(<<"A", 1>>) # IDOf(<<"A", 2>>)
    /\ IDOf(<<"B", 2>>) = IDOf(<<"A", 1>>)
    /\ cs.CourseAdditions = << <<"B", 2>> >>
    /\ cs.CourseDrops = <<>>
    /\ cs.CourseSwitches = <<>>
====
